---- MODULE Spec2Model ----
(***************************************************************************)
(* A model of src/main.py: a Byte Pair Encoding tokenizer.                 *)
(*                                                                         *)
(* A Python str is a sequence of one-character strings, so that joining,   *)
(* pattern substitution, splitting and replacing are computed character by *)
(* character as the library computes them.  A Python tuple or list is a    *)
(* sequence, a dict is a sequence of <<key, value>> in insertion order     *)
(* (the order Python iterates it in).  Python's word index i (from 0) is   *)
(* the position i + 1 here.                                                *)
(***************************************************************************)
EXTENDS Naturals, Sequences, FiniteSets, TLC

VARIABLES
    word_freq,          \* get_word_freq_dict's result: the frequency index
    n_bpe_operations,   \* learn_bpe: the configured number of rounds
    vocab,              \* learn_bpe: the ordered list of (word, freq)
    stats,              \* learn_bpe: the pair statistics of the round
    indices,            \* learn_bpe: the pair index of the round
    pair,               \* learn_bpe: the winning pair of the round
    tokens,             \* learn_bpe: the learned tokens
    i,                  \* learn_bpe: the round counter
    pc,                 \* where main / learn_bpe stands
    file,               \* the contents of bpe_tokens.txt, or Absent
    input_text,         \* encode: the text read by input()
    enc_tokens,         \* encode: the token list loaded from the file
    words,              \* encode: the words of the text, each with the marker
    widx,               \* encode: the position of the for loop in words
    word,               \* encode: the unconsumed suffix of the current word
    token,              \* encode: the token of the last iteration
    encoded_words,      \* encode: the output list
    enc_pc,             \* where encode / decode stands
    decoded             \* decode's result

vars == <<word_freq, n_bpe_operations, vocab, stats, indices, pair, tokens, i,
          pc, file, input_text, enc_tokens, words, widx, word, token,
          encoded_words, enc_pc, decoded>>

train_vars == <<word_freq, n_bpe_operations, vocab, stats, indices, pair,
                tokens, i>>

enc_vars == <<input_text, enc_tokens, words, widx, word, token,
              encoded_words, enc_pc, decoded>>

-----------------------------------------------------------------------------
(* Bounds of the model.                                                    *)

MaxCorpusLen == 6
MaxOps == 3
MaxTextLen == 2
MaxFileLines == 2
MaxSyms == 5

-----------------------------------------------------------------------------
(* Characters and strings.                                                 *)

NL == "\n"
SP == " "
Marker == <<"<", "/", "w", ">">>
UNK == <<"[", "U", "N", "K", "]">>
Absent == <<"(no file)">>

Whitespace == {SP, NL}
WordChars == {"a", "b", "A", "w", "U", "N", "K"}

\* str.lower() on one character
LowerChar(c) == IF c = "A" THEN "a" ELSE c

\* all sequences over S of length at most n
ListsUpTo(S, n) == UNION {[1..k -> S] : k \in 0..n}

\* s[k:] for k >= 0
Drop(s, k) == IF k >= Len(s) THEN <<>> ELSE SubSeq(s, k + 1, Len(s))

\* s[:k] for k >= 0
Take(s, k) == IF k >= Len(s) THEN s ELSE SubSeq(s, 1, k)

\* sep.join(parts)
RECURSIVE Join(_, _)
Join(parts, sep) ==
    IF parts = <<>> THEN <<>>
    ELSE IF Len(parts) = 1 THEN parts[1]
    ELSE parts[1] \o sep \o Join(Tail(parts), sep)

\* s.split(c) for a one-character separator c: empty pieces are kept
RECURSIVE SplitOn(_, _, _)
SplitOn(s, c, cur) ==
    IF s = <<>> THEN <<cur>>
    ELSE IF s[1] = c THEN <<cur>> \o SplitOn(Tail(s), c, <<>>)
    ELSE SplitOn(Tail(s), c, Append(cur, s[1]))

Split(s, c) == SplitOn(s, c, <<>>)

\* s.split(): pieces between runs of whitespace, no empty piece
RECURSIVE SplitWsFrom(_, _)
SplitWsFrom(s, cur) ==
    IF s = <<>> THEN (IF cur = <<>> THEN <<>> ELSE <<cur>>)
    ELSE IF s[1] \in Whitespace
         THEN (IF cur = <<>> THEN <<>> ELSE <<cur>>) \o SplitWsFrom(Tail(s), <<>>)
    ELSE SplitWsFrom(Tail(s), Append(cur, s[1]))

SplitWs(s) == SplitWsFrom(s, <<>>)

\* re.sub(r'[^\w\s]', '', s)
RemovePunct(s) == SelectSeq(s, LAMBDA c : c \in WordChars \cup Whitespace)

\* s.lower()
Lower(s) == [k \in 1..Len(s) |-> LowerChar(s[k])]

\* line.strip('\r\n ')
RECURSIVE LStrip(_)
LStrip(s) == IF s # <<>> /\ s[1] \in Whitespace THEN LStrip(Tail(s)) ELSE s

RECURSIVE RStrip(_)
RStrip(s) ==
    IF s # <<>> /\ s[Len(s)] \in Whitespace THEN RStrip(SubSeq(s, 1, Len(s) - 1)) ELSE s

Strip(s) == RStrip(LStrip(s))

\* s.replace(old, new) for a non-empty old: non-overlapping, left to right
RECURSIVE StrReplace(_, _, _)
StrReplace(s, old, new) ==
    IF s = <<>> THEN <<>>
    ELSE IF Len(s) >= Len(old) /\ SubSeq(s, 1, Len(old)) = old
         THEN new \o StrReplace(Drop(s, Len(old)), old, new)
    ELSE <<s[1]>> \o StrReplace(Tail(s), old, new)

-----------------------------------------------------------------------------
(* Dicts in insertion order.                                               *)

Keys(d) == {d[k][1] : k \in 1..Len(d)}

KeyPos(d, key) == CHOOSE k \in 1..Len(d) : d[k][1] = key

\* d[key] += n on a defaultdict(int)
DictAdd(d, key, n) ==
    IF key \in Keys(d)
    THEN [d EXCEPT ![KeyPos(d, key)] = <<key, @[2] + n>>]
    ELSE Append(d, <<key, n>>)

\* sorted(..., key=..., reverse=True) is stable: the positions of keys in
\* the order of the result, equal keys in their original order
RECURSIVE SortedDesc(_, _)
SortedDesc(keys, todo) ==
    IF todo = {} THEN <<>>
    ELSE LET best == CHOOSE k \in todo :
                        \A m \in todo : keys[k] > keys[m] \/ (keys[k] = keys[m] /\ k <= m)
         IN  <<best>> \o SortedDesc(keys, todo \ {best})

SortDescBy(s, keys) ==
    LET order == SortedDesc(keys, 1..Len(s))
    IN  [k \in 1..Len(s) |-> s[order[k]]]

-----------------------------------------------------------------------------
(* get_word_freq_dict                                                      *)

\* Counter(words), then vocab[word] += freq for each of its items
RECURSIVE CountWords(_, _)
CountWords(ws, d) ==
    IF ws = <<>> THEN d ELSE CountWords(Tail(ws), DictAdd(d, ws[1], 1))

RECURSIVE AddCounts(_, _)
AddCounts(counter, d) ==
    IF counter = <<>> THEN d
    ELSE AddCounts(Tail(counter), DictAdd(d, counter[1][1], counter[1][2]))

RECURSIVE ReadLines(_, _)
ReadLines(lines, d) ==
    IF lines = <<>> THEN d
    ELSE LET line == Lower(RemovePunct(Strip(lines[1])))
         IN  ReadLines(Tail(lines), AddCounts(CountWords(SplitWs(line), <<>>), d))

get_word_freq_dict(corpus) == ReadLines(Split(corpus, NL), <<>>)

-----------------------------------------------------------------------------
(* learn_bpe: the vocabulary                                               *)

\* ''.join(parts)
RECURSIVE Concat(_)
Concat(parts) == IF parts = <<>> THEN <<>> ELSE parts[1] \o Concat(Tail(parts))

\* tuple(word[:-1]) + (word[-1] + '</w>',)
ToSymbols(w) ==
    [k \in 1..Len(w) |-> IF k = Len(w) THEN <<w[k]>> \o Marker ELSE <<w[k]>>]

\* dict(...) of the entries, then sorted by frequency, largest first
InitVocab(wf) ==
    LET entries == [k \in 1..Len(wf) |-> <<ToSymbols(wf[k][1]), wf[k][2]>>]
    IN  SortDescBy(entries, [k \in 1..Len(wf) |-> wf[k][2]])

-----------------------------------------------------------------------------
(* get_stats                                                               *)

\* indices[p][j] = indices[p].get(j, 0) + 1 on a defaultdict(dict)
IndexAdd(ind, p, j) ==
    IF p \in DOMAIN ind
    THEN [ind EXCEPT ![p] = IF j \in DOMAIN @ THEN [@ EXCEPT ![j] = @ + 1]
                                                ELSE @ @@ (j :> 1)]
    ELSE ind @@ (p :> (j :> 1))

\* the inner loop with stats[pair] += 1 in place of += freq
RECURSIVE ScanWordUnit(_, _, _, _, _)
ScanWordUnit(w, freq, j, k, acc) ==
    IF k >= Len(w) THEN acc
    ELSE LET p == <<w[k], w[k + 1]>>
         IN  ScanWordUnit(w, freq, j, k + 1,
                          <<DictAdd(acc[1], p, 1), IndexAdd(acc[2], p, j)>>)

\* the inner loop over zip(word, word[1:]), from position k of entry j
RECURSIVE ScanWord(_, _, _, _, _)
ScanWord(w, freq, j, k, acc) ==
    IF k >= Len(w) THEN acc
    ELSE LET p == <<w[k], w[k + 1]>>
         IN  ScanWord(w, freq, j, k + 1,
                      <<DictAdd(acc[1], p, freq), IndexAdd(acc[2], p, j)>>)

\* the outer loop over enumerate(vocab), from entry j
RECURSIVE ScanVocab(_, _, _)
ScanVocab(v, j, acc) ==
    IF j > Len(v) THEN acc
    ELSE ScanVocab(v, j + 1, ScanWord(v[j][1], v[j][2], j, 1, acc))

\* <<stats, indices>>
get_stats(v) == ScanVocab(v, 1, <<<<>>, <<>>>>)

-----------------------------------------------------------------------------
(* replace_string                                                          *)

\* re.escape(f'{first_sym} {second_sym}'): the literal text of the pattern
PatternText(p) == p[1] \o <<SP>> \o p[2]

\* the pattern without its lookbehind: literal (?!\S)
MatchAtNoLookbehind(x, pos, p) ==
    LET n == Len(PatternText(p))
    IN  /\ pos + n - 1 <= Len(x)
        /\ SubSeq(x, pos, pos + n - 1) = PatternText(p)
        /\ pos + n > Len(x) \/ x[pos + n] \in Whitespace

\* the pattern without its lookahead: (?<!\S) literal
MatchAtNoLookahead(x, pos, p) ==
    LET n == Len(PatternText(p))
    IN  /\ pos + n - 1 <= Len(x)
        /\ pos = 1 \/ x[pos - 1] \in Whitespace
        /\ SubSeq(x, pos, pos + n - 1) = PatternText(p)

\* (?<!\S) literal (?!\S) matches x at position pos
MatchAt(x, pos, p) ==
    LET n == Len(PatternText(p))
    IN  /\ pos + n - 1 <= Len(x)
        /\ pos = 1 \/ x[pos - 1] \in Whitespace
        /\ SubSeq(x, pos, pos + n - 1) = PatternText(p)
        /\ pos + n > Len(x) \/ x[pos + n] \in Whitespace

\* pattern.sub(new_sym, x, count=1): the first match only
RECURSIVE PatternSubFirst(_, _, _)
PatternSubFirst(x, pos, p) ==
    IF pos > Len(x) THEN <<>>
    ELSE IF MatchAt(x, pos, p)
         THEN Concat(p) \o Drop(x, pos + Len(PatternText(p)) - 1)
    ELSE <<x[pos]>> \o PatternSubFirst(x, pos + 1, p)

\* pattern.sub(new_sym, x): leftmost non-overlapping matches, from pos
RECURSIVE PatternSub(_, _, _)
PatternSub(x, pos, p) ==
    IF pos > Len(x) THEN <<>>
    ELSE IF MatchAt(x, pos, p)
         THEN Concat(p) \o PatternSub(x, pos + Len(PatternText(p)), p)
    ELSE <<x[pos]>> \o PatternSub(x, pos + 1, p)

\* the loop body storing the entry without its frequency carried over
ReplaceEntryNoFreq(entry, p) ==
    <<Split(PatternSub(Join(entry[1], <<SP>>), 1, p), SP), 1>>

\* the loop body for one entry: join, substitute, split
ReplaceEntry(entry, p) ==
    <<Split(PatternSub(Join(entry[1], <<SP>>), 1, p), SP), entry[2]>>

\* indices[pair].items() on a defaultdict(dict): the word indices visited
IndexKeys(ind, p) == IF p \in DOMAIN ind THEN DOMAIN ind[p] ELSE {}

\* a loop over the whole vocabulary with str.replace for the pattern
replace_string_everywhere(v, p, ind) ==
    [j \in 1..Len(v) |->
        <<Split(StrReplace(Join(v[j][1], <<SP>>), PatternText(p), Concat(p)), SP), v[j][2]>>]

replace_string(v, p, ind) ==
    [j \in 1..Len(v) |-> IF j \in IndexKeys(ind, p) THEN ReplaceEntry(v[j], p) ELSE v[j]]

-----------------------------------------------------------------------------
(* _get_token, decode                                                      *)

_get_token(toks, w) ==
    LET hits == {k \in 1..Len(toks) : Take(w, Len(toks[k])) = toks[k]}
    IN  IF hits = {} THEN UNK
        ELSE toks[CHOOSE k \in hits : \A m \in hits : k <= m]

decode(encoded_text) == StrReplace(Concat(encoded_text), Marker, <<SP>>)

-----------------------------------------------------------------------------
(* The program started with --learn: learn_bpe, then the encode loop.      *)

CorpusChars == {"a", "b", SP, NL, "A", "."}
TextChars == {"a", "b", SP, "A", "."}

Corpora == ListsUpTo(CorpusChars, MaxCorpusLen)

\* what input() may return: any short text, a word of the corpus, or two
\* words of the corpus with a space between them
CorpusWords(wf) == Keys(wf)

Texts(wf) ==
    ListsUpTo(TextChars, MaxTextLen)
        \cup CorpusWords(wf)
        \cup {u \o <<SP>> \o w : u \in CorpusWords(wf), w \in CorpusWords(wf)}

EncIdle ==
    /\ input_text = <<>>
    /\ enc_tokens = <<>>
    /\ words = <<>>
    /\ widx = 0
    /\ word = <<>>
    /\ token = <<>>
    /\ encoded_words = <<>>
    /\ enc_pc = "idle"
    /\ decoded = <<>>

Init ==
    /\ \E corpus \in Corpora : word_freq = get_word_freq_dict(corpus)
    /\ n_bpe_operations \in 1..MaxOps
    /\ vocab = <<>>
    /\ stats = <<>>
    /\ indices = <<>>
    /\ pair = <<>>
    /\ tokens = <<>>
    /\ i = 0
    /\ pc = "learn"
    /\ file = Absent
    /\ EncIdle

\* learn_bpe, lines 81-90
LearnStart ==
    /\ pc = "learn"
    /\ vocab' = InitVocab(word_freq)
    /\ tokens' = <<>>
    /\ i' = 0
    /\ pc' = "get_stats"
    /\ UNCHANGED <<word_freq, n_bpe_operations, stats, indices, pair, file>>
    /\ UNCHANGED enc_vars

\* line 94
GetStats ==
    /\ pc = "get_stats"
    /\ stats' = get_stats(vocab)[1]
    /\ indices' = get_stats(vocab)[2]
    /\ pc' = "pick"
    /\ UNCHANGED <<word_freq, n_bpe_operations, vocab, pair, tokens, i, file>>
    /\ UNCHANGED enc_vars

\* sorted(stats.items(), key=lambda x: x[1])[::-1]: ties come out reversed
SortStatsTiesReversed(st) ==
    LET rev == [k \in 1..Len(st) |-> st[Len(st) + 1 - k]]
    IN  SortDescBy(rev, [k \in 1..Len(rev) |-> rev[k][2]])

\* sorted(stats.items(), key=lambda x: x[1], reverse=True)
SortStats(st) == SortDescBy(st, [k \in 1..Len(st) |-> st[k][2]])

\* lines 97-98
PickPair ==
    /\ pc = "pick"
    /\ stats # <<>>
    /\ stats' = SortStats(stats)
    /\ pair' = SortStats(stats)[1][1]
    /\ pc' = "replace"
    /\ UNCHANGED <<word_freq, n_bpe_operations, vocab, indices, tokens, i, file>>
    /\ UNCHANGED enc_vars

\* line 98 on an empty list: IndexError, which nothing catches
PickFail ==
    /\ pc = "pick"
    /\ stats = <<>>
    /\ pc' = "failed"
    /\ UNCHANGED <<word_freq, n_bpe_operations, vocab, stats, indices, pair, tokens, i, file>>
    /\ UNCHANGED enc_vars

\* lines 102-105 and the loop's step
Replace ==
    /\ pc = "replace"
    /\ vocab' = replace_string(vocab, pair, indices)
    /\ tokens' = Append(tokens, Concat(pair))
    /\ i' = i + 1
    /\ pc' = IF i + 1 < n_bpe_operations THEN "get_stats" ELSE "write"
    /\ UNCHANGED <<word_freq, n_bpe_operations, stats, indices, pair, file>>
    /\ UNCHANGED enc_vars

\* the tokens written in the order they were learned
SortTokensNone(toks) == toks

\* tokens.sort(key=len, reverse=True)
SortTokens(toks) == SortDescBy(toks, [k \in 1..Len(toks) |-> Len(toks[k])])

\* lines 107-109
WriteTokens ==
    /\ pc = "write"
    /\ tokens' = SortTokens(tokens)
    /\ file' = Join(SortTokens(tokens), <<NL>>)
    /\ pc' = "main_loop"
    /\ UNCHANGED <<word_freq, n_bpe_operations, vocab, stats, indices, pair, i>>
    /\ UNCHANGED enc_vars

Learn == LearnStart \/ GetStats \/ PickPair \/ PickFail \/ Replace \/ WriteTokens

-----------------------------------------------------------------------------
(* encode, one iteration of its while loop per step, and decode            *)

\* lines 131-140: the words of the text, each with '</w>' appended
MarkedWords(text) ==
    LET ws == SplitWs(Lower(RemovePunct(text)))
    IN  [k \in 1..Len(ws) |-> ws[k] \o Marker]

\* the characters of the words: no terminating run emits more tokens
RECURSIVE TotalLen(_)
TotalLen(ws) == IF ws = <<>> THEN 0 ELSE Len(ws[1]) + TotalLen(Tail(ws))

\* lines 127-144: load the tokens, normalise the text, enter the loops
EncStart ==
    /\ pc = "main_loop"
    /\ enc_pc = "idle"
    /\ file # Absent
    /\ \E text \in Texts(word_freq) :
          /\ input_text' = text
          /\ words' = MarkedWords(text)
    /\ enc_tokens' = Split(file, NL)
    /\ encoded_words' = <<>>
    /\ widx' = IF words' = <<>> THEN 0 ELSE 1
    /\ word' = IF words' = <<>> THEN <<>> ELSE words'[1]
    /\ enc_pc' = IF words' = <<>> THEN "return" ELSE "while"
    /\ UNCHANGED <<token, decoded, pc, file>>
    /\ UNCHANGED train_vars

\* line 127 without the file: open raises, nothing catches it
EncNoFile ==
    /\ pc = "main_loop"
    /\ enc_pc = "idle"
    /\ file = Absent
    /\ enc_pc' = "failed"
    /\ UNCHANGED <<input_text, enc_tokens, words, widx, word, token, encoded_words, decoded>>
    /\ UNCHANGED <<pc, file>>
    /\ UNCHANGED train_vars

\* lines 146-151: one iteration; on break the for loop takes the next word.
\* The list grows without end when an iteration consumes nothing; the
\* guard stops the model one token past what a run that consumes can emit.
EncStep ==
    /\ enc_pc = "while"
    /\ Len(encoded_words) <= TotalLen(words)
    /\ token' = _get_token(enc_tokens, word)
    /\ encoded_words' = Append(encoded_words, token')
    /\ LET rest == Drop(word, Len(token'))
       IN  IF token' = UNK \/ rest = <<>>
           THEN IF widx < Len(words)
                THEN /\ widx' = widx + 1
                     /\ word' = words[widx + 1]
                     /\ enc_pc' = "while"
                ELSE /\ widx' = widx
                     /\ word' = rest
                     /\ enc_pc' = "return"
           ELSE /\ widx' = widx
                /\ word' = rest
                /\ enc_pc' = "while"
    /\ UNCHANGED <<input_text, enc_tokens, words, decoded, pc, file>>
    /\ UNCHANGED train_vars

\* line 153, then decode (line 160) of the list encode returned
Decode ==
    /\ enc_pc = "return"
    /\ decoded' = decode(encoded_words)
    /\ enc_pc' = "decoded"
    /\ UNCHANGED <<input_text, enc_tokens, words, widx, word, token, encoded_words>>
    /\ UNCHANGED <<pc, file>>
    /\ UNCHANGED train_vars

Next == Learn \/ EncStart \/ EncStep \/ Decode

Spec == Init /\ [][Next]_vars

-----------------------------------------------------------------------------
(* The program started without --learn: encode over the token file that   *)
(* is there, whatever it holds.                                            *)

\* the lines a token file is made of
SymbolTexts == {<<>>, <<"a">>, <<"b">>, <<"a", "b">>}
TokenLines == SymbolTexts \cup {s \o Marker : s \in SymbolTexts}

Files == {Join(lines, <<NL>>) : lines \in ListsUpTo(TokenLines, MaxFileLines)}

InitEncode ==
    /\ word_freq = <<>>
    /\ n_bpe_operations = 0
    /\ vocab = <<>>
    /\ stats = <<>>
    /\ indices = <<>>
    /\ pair = <<>>
    /\ tokens = <<>>
    /\ i = 0
    /\ pc = "main_loop"
    /\ file \in Files \cup {Absent}
    /\ EncIdle

NextEncode == EncStart \/ EncNoFile \/ EncStep \/ Decode

SpecEncode == InitEncode /\ [][NextEncode]_vars

-----------------------------------------------------------------------------
(* replace_string on any entry and any pair of it: one round's merge from  *)
(* a vocabulary whose symbols are already merged units.                    *)

Symbols == {<<"a">>, <<"b">>, <<"a", "a">>, <<"b", "a">>}

\* the last symbol of an entry ends with the marker
Entries ==
    {[k \in 1..Len(l) |-> IF k = Len(l) THEN l[k] \o Marker ELSE l[k]] :
        l \in ListsUpTo(Symbols, MaxSyms) \ {<<>>}}

InitMerge ==
    /\ word_freq = <<>>
    /\ n_bpe_operations = 1
    /\ \E e \in Entries : vocab = <<<<e, 1>>>>
    /\ stats = get_stats(vocab)[1]
    /\ indices = get_stats(vocab)[2]
    /\ pair \in Keys(stats)
    /\ tokens = <<>>
    /\ i = 0
    /\ pc = "replace"
    /\ file = Absent
    /\ EncIdle

NextMerge == Replace

SpecMerge == InitMerge /\ [][NextMerge]_vars

-----------------------------------------------------------------------------
(* Properties.  What they are stated with.                                 *)

InTraining == pc \in {"get_stats", "pick", "replace", "write"}

\* a round's merge is done: vocab is the merged vocabulary, and pair and
\* indices are still those of that round
AfterMerge == pc \in {"get_stats", "write"} /\ i >= 1

\* the frequency index in the order of the vocabulary
OrigEntries == SortDescBy(word_freq, [k \in 1..Len(word_freq) |-> word_freq[k][2]])

\* the pair occurs in w as two adjacent whole symbols
HasAdjacent(w, p) == \E k \in 1..(Len(w) - 1) : w[k] = p[1] /\ w[k + 1] = p[2]

\* the positions where t occurs in s
Occurrences(t, s) ==
    {k \in 1..Len(s) : k + Len(t) - 1 <= Len(s) /\ SubSeq(s, k, k + Len(t) - 1) = t}

\* left to right, every non-overlapping occurrence of the pair as adjacent
\* whole symbols becomes one symbol
RECURSIVE Fuse(_, _)
Fuse(w, p) ==
    IF w = <<>> THEN <<>>
    ELSE IF Len(w) >= 2 /\ w[1] = p[1] /\ w[2] = p[2]
         THEN <<p[1] \o p[2]>> \o Fuse(Drop(w, 2), p)
    ELSE <<w[1]>> \o Fuse(Tail(w), p)

\* the number of positions of w where the pair stands (overlapping
\* positions counted)
Count(w, p) == Cardinality({k \in 1..(Len(w) - 1) : w[k] = p[1] /\ w[k + 1] = p[2]})

\* the sum over the entries from j on of frequency times count
RECURSIVE AggFrom(_, _, _)
AggFrom(v, p, j) ==
    IF j > Len(v) THEN 0 ELSE v[j][2] * Count(v[j][1], p) + AggFrom(v, p, j + 1)

AggFreq(v, p) == AggFrom(v, p, 1)

SymbolsOf(v) == UNION {{v[j][1][k] : k \in 1..Len(v[j][1])} : j \in 1..Len(v)}

\* the pairs that stand somewhere in the vocabulary
PairsOf(v) ==
    UNION {{<<v[j][1][k], v[j][1][k + 1]>> : k \in 1..(Len(v[j][1]) - 1)} : j \in 1..Len(v)}

\* where the pair stands: <<entry, position>>
Positions(v, p) ==
    UNION {{<<j, k>> : k \in {m \in 1..(Len(v[j][1]) - 1) :
                                 v[j][1][m] = p[1] /\ v[j][1][m + 1] = p[2]}} :
           j \in 1..Len(v)}

\* scanning entries in index order and each entry left to right
Before(x, y) == x[1] < y[1] \/ (x[1] = y[1] /\ x[2] < y[2])

FirstPos(v, p) ==
    CHOOSE x \in Positions(v, p) : \A y \in Positions(v, p) : x = y \/ Before(x, y)

\* d.get(key, 0)
DictGet(d, key) == IF key \in Keys(d) THEN d[KeyPos(d, key)][2] ELSE 0

\* the sum over the keys of the pair's index of frequency times count
RECURSIVE IndexSum(_, _, _)
IndexSum(v, ind, todo) ==
    IF todo = {} THEN 0
    ELSE LET j == CHOOSE x \in todo : TRUE
         IN  v[j][2] * ind[j] + IndexSum(v, ind, todo \ {j})

-----------------------------------------------------------------------------
(* C1: word-index stability.  After any number of merge rounds the         *)
(* vocabulary has as many entries as the frequency index has distinct      *)
(* words, every entry is the word it was at its index, and every entry's   *)
(* frequency is its initial frequency.                                     *)
C1_WordIndexStable ==
    InTraining =>
        /\ Len(vocab) = Cardinality(Keys(word_freq))
        /\ \A j \in 1..Len(vocab) :
              /\ vocab[j][2] = OrigEntries[j][2]
              /\ Concat(vocab[j][1]) = OrigEntries[j][1] \o Marker

\* a round has merged in a vocabulary of several entries that the sort by
\* frequency had put in another order than the frequency index
C1_Witness ==
    /\ AfterMerge
    /\ Len(vocab) >= 2
    /\ vocab[1][2] > vocab[Len(vocab)][2]
    /\ OrigEntries # word_freq
    /\ \E j \in 1..Len(vocab) : Len(vocab[j][1]) < Len(OrigEntries[j][1])

-----------------------------------------------------------------------------
(* C6: merge frame.  The keys of the pair index for the winning pair are   *)
(* exactly the indices of the entries that contain the pair as adjacent    *)
(* symbols, and replace_string leaves every entry outside those keys as it *)
(* was, symbols and frequency.                                             *)
C6_KeysExact ==
    pc = "replace" =>
        IndexKeys(indices, pair) = {j \in 1..Len(vocab) : HasAdjacent(vocab[j][1], pair)}

C6_Frame ==
    pc = "replace" =>
        /\ Len(vocab') = Len(vocab)
        /\ \A j \in 1..Len(vocab) : j \notin IndexKeys(indices, pair) => vocab'[j] = vocab[j]

\* C6: the keys are exact in every round, and every merge step keeps the
\* entries outside them
C6_MergeFrame == [](C6_KeysExact) /\ [][C6_Frame]_vars

\* a merge has rewritten one entry and passed over another that has
\* adjacent symbols of its own
C6_Witness ==
    /\ AfterMerge
    /\ IndexKeys(indices, pair) # {}
    /\ \E j \in 1..Len(vocab) : j \notin IndexKeys(indices, pair) /\ Len(vocab[j][1]) >= 2

-----------------------------------------------------------------------------
(* C10: word-content preservation.  After any number of merge rounds each  *)
(* entry's symbols concatenate to its word followed by the marker, every   *)
(* symbol is non-empty and free of whitespace, the marker occurs only as   *)
(* the end of the last symbol; no entry ever gains a symbol, every entry   *)
(* in the winning pair's index loses at least one per round, and after the *)
(* round no entry has the winning pair as adjacent symbols.                *)
C10_Content ==
    InTraining =>
        \A j \in 1..Len(vocab) :
            LET w == vocab[j][1]
            IN  /\ Concat(w) = OrigEntries[j][1] \o Marker
                /\ \A k \in 1..Len(w) :
                      /\ w[k] # <<>>
                      /\ \A c \in 1..Len(w[k]) : w[k][c] \notin Whitespace
                      /\ Occurrences(Marker, w[k]) =
                            IF k = Len(w) THEN {Len(w[k]) - Len(Marker) + 1} ELSE {}

C10_Shrinks ==
    /\ (InTraining /\ InTraining') =>
          \A j \in 1..Len(vocab) : Len(vocab'[j][1]) <= Len(vocab[j][1])
    /\ pc = "replace" =>
          /\ \A j \in IndexKeys(indices, pair) : Len(vocab'[j][1]) < Len(vocab[j][1])
          /\ \A j \in 1..Len(vocab') : ~HasAdjacent(vocab'[j][1], pair)

\* C10: the content holds in every state of training, and every step
\* shrinks as stated
C10_ContentPreserved == [](C10_Content) /\ [][C10_Shrinks]_vars

\* a merge has fused the winning pair twice in one entry
C10_Witness ==
    /\ AfterMerge
    /\ \E j \in IndexKeys(indices, pair) :
          /\ indices[pair][j] >= 2
          /\ Cardinality({k \in 1..Len(vocab[j][1]) : vocab[j][1][k] = Concat(pair)}) >= 2

-----------------------------------------------------------------------------
(* C8: pair statistics.  get_stats returns for every pair the sum over the *)
(* entries of frequency times the number of positions where the pair       *)
(* stands, and a pair index that holds that number per entry, with a key   *)
(* only where it is at least 1; so the statistic of a pair is the sum over *)
(* its index of frequency times count.  get_stats leaves the vocabulary    *)
(* as it is.                                                               *)
C8_Stats ==
    pc = "pick" =>
        /\ Len(stats) = Cardinality(Keys(stats))
        /\ Keys(stats) = PairsOf(vocab)
        /\ DOMAIN indices = Keys(stats)
        /\ \A p \in SymbolsOf(vocab) \X SymbolsOf(vocab) :
              /\ DictGet(stats, p) = AggFreq(vocab, p)
              /\ IndexKeys(indices, p) = {j \in 1..Len(vocab) : Count(vocab[j][1], p) >= 1}
              /\ \A j \in IndexKeys(indices, p) : indices[p][j] = Count(vocab[j][1], p)
              /\ p \in Keys(stats) =>
                    DictGet(stats, p) = IndexSum(vocab, indices[p], DOMAIN indices[p])

C8_VocabKept == pc = "get_stats" => vocab' = vocab

\* C8: the statistics are the sums in every round, and computing them
\* keeps the vocabulary
C8_PairStatistics == [](C8_Stats) /\ [][C8_VocabKept]_vars

\* statistics of a vocabulary of several entries where a pair stands at
\* two overlapping positions of one entry
C8_Witness ==
    /\ pc = "pick"
    /\ Len(vocab) >= 2
    /\ \E p \in Keys(stats) : \E x \in Positions(vocab, p) :
          <<x[1], x[2] + 1>> \in Positions(vocab, p)

-----------------------------------------------------------------------------
(* C7: the winning pair.  In every round the selected pair has the largest *)
(* aggregate frequency of the round, and among the pairs with that         *)
(* frequency it is the one found first when the entries are scanned in     *)
(* index order, each from left to right.                                   *)
C7_WinningPair ==
    pc = "replace" =>
        /\ pair \in PairsOf(vocab)
        /\ \A q \in PairsOf(vocab) :
              /\ AggFreq(vocab, q) <= AggFreq(vocab, pair)
              /\ (q # pair /\ AggFreq(vocab, q) = AggFreq(vocab, pair)) =>
                    Before(FirstPos(vocab, pair), FirstPos(vocab, q))

\* in a round after the first, a pair was selected that another pair, of
\* another entry, ties with
C7_Witness ==
    /\ pc = "replace"
    /\ i >= 1
    /\ \E q \in PairsOf(vocab) :
          /\ q # pair
          /\ AggFreq(vocab, q) = AggFreq(vocab, pair)
          /\ FirstPos(vocab, q)[1] # FirstPos(vocab, pair)[1]

-----------------------------------------------------------------------------
(* C5: exhaustion of the rounds.                                           *)

\* the distinct adjacent pairs, and the adjacent positions, of the initial
\* vocabulary
DistinctPairs0 == Cardinality(PairsOf(InitVocab(word_freq)))

RECURSIVE PositionsFrom(_, _)
PositionsFrom(wf, k) ==
    IF k > Len(wf) THEN 0 ELSE (Len(wf[k][1]) - 1) + PositionsFrom(wf, k + 1)

Positions0 == PositionsFrom(word_freq, 1)

AllRoundsDone == pc \in {"write", "main_loop"}

(* C5 as claimed: with fewer distinct adjacent pairs in the initial        *)
(* vocabulary than rounds, learn_bpe fails and does not complete its       *)
(* rounds; with at least as many, all rounds complete.                     *)
C5_Original ==
    /\ pc # "learn" /\ DistinctPairs0 < n_bpe_operations => ~AllRoundsDone
    /\ pc # "learn" /\ DistinctPairs0 >= n_bpe_operations => pc # "failed"

(* C5 as amended: with fewer adjacent symbol positions in the initial      *)
(* vocabulary than rounds, learn_bpe fails and does not complete its       *)
(* rounds; with at least as many distinct adjacent pairs as rounds, all    *)
(* rounds complete.  It fails only in a round that finds no pair.          *)
C5_Exhaustion ==
    /\ pc # "learn" /\ Positions0 < n_bpe_operations => ~AllRoundsDone
    /\ pc # "learn" /\ DistinctPairs0 >= n_bpe_operations => pc # "failed"
    /\ pc = "failed" =>
          /\ i < n_bpe_operations
          /\ \A j \in 1..Len(vocab) : Len(vocab[j][1]) = 1

\* learn_bpe has failed after some rounds, having merged every position
C5_Witness ==
    /\ pc = "failed"
    /\ i >= 2
    /\ i = Positions0
    /\ Positions0 < n_bpe_operations

-----------------------------------------------------------------------------
(* C4: boundary-safe merge.  For every entry in the pair index of the pair *)
(* replace_string yields the symbols obtained by fusing, left to right,    *)
(* every non-overlapping occurrence of the first symbol immediately        *)
(* followed by the second, both as whole symbols; nothing else changes,    *)
(* and the text of the pair inside longer symbols is never fused.          *)
C4_Step ==
    pc = "replace" =>
        \A j \in IndexKeys(indices, pair) :
            vocab'[j] = <<Fuse(vocab[j][1], pair), vocab[j][2]>>

\* C4: every merge step rewrites the entries of the pair index to their
\* left-to-right fusion
C4_BoundarySafeMerge == [][C4_Step]_vars

\* t ends with s and is longer
ProperSuffix(s, t) == Len(s) < Len(t) /\ SubSeq(t, Len(t) - Len(s) + 1, Len(t)) = s

\* the pair was fused in an entry where, elsewhere, a longer symbol that
\* ends with the text of the first symbol stands before the second symbol
C4_Witness ==
    /\ pc = "write"
    /\ i = 1
    /\ LET w == vocab[1][1]
       IN  /\ \E k \in 1..Len(w) : w[k] = Concat(pair)
           /\ \E k \in 1..(Len(w) - 1) : ProperSuffix(pair[1], w[k]) /\ w[k + 1] = pair[2]

-----------------------------------------------------------------------------
(* C9: greedy longest-prefix encoding with the trained token list.  The    *)
(* list encode loads is the list training wrote: sorted by non-increasing  *)
(* length, equal lengths in the order they were learned.  Each step emits  *)
(* the first token of the list that is a prefix of the remaining suffix,   *)
(* which is a longest such token, or the sentinel when there is none.  The *)
(* output is, word by word in input order, tokens that concatenate to the  *)
(* word with its marker, or to a part of it followed by the sentinel.      *)
IsPrefix(t, w) == Len(t) <= Len(w) /\ \A c \in 1..Len(t) : t[c] = w[c]

OfLength(toks, n) == SelectSeq(toks, LAMBDA t : Len(t) = n)

C9_Sorted ==
    enc_pc # "idle" =>
        /\ enc_tokens = tokens
        /\ \A a \in 1..Len(enc_tokens) : \A b \in a..Len(enc_tokens) :
              Len(enc_tokens[a]) >= Len(enc_tokens[b])

C9_Stable ==
    pc = "write" =>
        \A a \in 1..Len(tokens) :
            OfLength(tokens', Len(tokens[a])) = OfLength(tokens, Len(tokens[a]))

C9_Step ==
    enc_pc = "while" =>
        LET hits == {k \in 1..Len(enc_tokens) : IsPrefix(enc_tokens[k], word)}
        IN  IF hits = {} THEN token' = UNK
            ELSE \E k \in hits :
                    /\ token' = enc_tokens[k]
                    /\ \A m \in hits : k <= m /\ Len(enc_tokens[m]) <= Len(token')

RECURSIVE Parses(_, _, _)
Parses(enc, ws, cur) ==
    IF ws = <<>> THEN enc = <<>>
    ELSE IF enc = <<>> THEN FALSE
    ELSE LET rest == Tail(ws)
             next == IF rest = <<>> THEN <<>> ELSE rest[1]
         IN  IF enc[1] = UNK THEN Parses(Tail(enc), rest, next)
             ELSE /\ enc[1] # <<>>
                  /\ IsPrefix(enc[1], cur)
                  /\ IF Len(enc[1]) = Len(cur)
                     THEN Parses(Tail(enc), rest, next)
                     ELSE Parses(Tail(enc), ws, Drop(cur, Len(enc[1])))

C9_Output ==
    enc_pc \in {"return", "decoded"} =>
        Parses(encoded_words, words, IF words = <<>> THEN <<>> ELSE words[1])

\* C9: the list is sorted and the output parses in every state; every
\* write keeps equal lengths in order and every step emits the first,
\* longest prefix
C9_GreedyEncoding == [](C9_Sorted /\ C9_Output) /\ [][C9_Stable /\ C9_Step]_vars

\* a text of several words was encoded; its first word came out whole as
\* one token although a shorter token of the list is a prefix of it too
C9_Witness ==
    /\ enc_pc = "return"
    /\ Len(words) >= 2
    /\ encoded_words[1] = words[1]
    /\ \E m \in 1..Len(enc_tokens) :
          enc_tokens[m] # words[1] /\ IsPrefix(enc_tokens[m], words[1])

-----------------------------------------------------------------------------
(* C2: encode/decode inverse.  For a word w of the training corpus whose   *)
(* encoding holds no sentinel, decode(encode(w)) is exactly w.             *)
C2_RoundTrip ==
    (/\ enc_pc = "decoded"
     /\ input_text \in CorpusWords(word_freq)
     /\ \A k \in 1..Len(encoded_words) : encoded_words[k] # UNK)
        => decoded = input_text

-----------------------------------------------------------------------------
(* C3: unknown fallback and termination of the encoder.  For every token   *)
(* list as loaded from the file and every word, each iteration of the      *)
(* per-word loop either ends the word with the sentinel or consumes at     *)
(* least one character of the suffix, so the loop terminates; when no      *)
(* token is a prefix of the suffix the sentinel is emitted once and encode *)
(* goes on to the next word.                                               *)
C3_Step ==
    enc_pc = "while" =>
        /\ token' = UNK \/ Len(token') >= 1
        /\ (\A k \in 1..Len(enc_tokens) : ~IsPrefix(enc_tokens[k], word)) =>
              /\ encoded_words' = Append(encoded_words, UNK)
              /\ IF widx < Len(words)
                 THEN widx' = widx + 1 /\ word' = words[widx + 1] /\ enc_pc' = "while"
                 ELSE enc_pc' = "return"

\* C3: every iteration of the per-word loop makes progress, and falls
\* back to the sentinel when no token fits
C3_EncoderTerminates == [][C3_Step]_vars

====
